---- MODULE Spec2Model ----
(***************************************************************************)
(* Model of the Notion tool adapters (lib/ai/tools/*.ts) and of the        *)
(* credential connector (NotionConnector).                                 *)
(*                                                                         *)
(* JavaScript values are represented as follows.                           *)
(*   - a string is a TLA+ string; null/undefined is the sentinel Null;     *)
(*   - an argument object is a function from the supplied keys to values   *)
(*     (a key that is not in its DOMAIN is undefined);                     *)
(*   - a template literal is the concatenation (\o) of its pieces;         *)
(*   - an adapter's result is the record the code returns: the decoded     *)
(*     body itself, or [error |-> ...] / [error |-> ..., details |-> ...]. *)
(***************************************************************************)
EXTENDS Integers, Sequences, FiniteSets, TLC

\* ------------------------------------------------------------------ bounds

\* Number of tool invocations that may be alive at the same time.
NumInv == 2

\* Largest number of optional arguments supplied in one argument object.
MaxOptional == 2

\* The number of NotionConnector instances (chats, tabs) on the one browser.
NumConn == 2

\* ------------------------------------------------------- program constants

NOTION_API_VERSION == "2022-06-28"

NOTION_API_BASE_URL == "https://api.notion.com/v1"

NOTION_TOKEN_LOCAL_STORAGE_KEY == "notionIntegrationSecret"

\* JavaScript null / undefined.
Null == "<null>"

\* The error every factory-built adapter returns when `!notionToken`.
MissingTokenError ==
    [error |-> "Notion API integration token is not configured. Please configure it in the Notion Connector settings."]

\* ---------------------------------------------------------------- adapters
\* One record per adapter: where the bearer token comes from ("bound": the
\* factory's closure, checked by `if (!notionToken)`; "arg": an argument of
\* the call, never checked), the method and path of its fetch, the required
\* and optional keys of its zod schema, and the two messages of its result.
\* path is the template literal appended to NOTION_API_BASE_URL; the positions
\* listed in pathArgs hold the name of the argument interpolated there.

notionRetrieveABlock ==
    [name |-> "notionRetrieveABlock", token |-> "bound", method |-> "GET",
     path |-> <<"/blocks/", "block_id">>, pathArgs |-> {2},
     required |-> {"block_id"}, optional |-> {},
     rejectPrefix |-> "Notion API request (retrieve-a-block) failed with status ",
     failText |-> "Failed to execute Notion retrieve-a-block due to a network or unexpected error."]

notionDeleteABlock ==
    [name |-> "notionDeleteABlock", token |-> "bound", method |-> "DELETE",
     path |-> <<"/blocks/", "block_id">>, pathArgs |-> {2},
     required |-> {"block_id"}, optional |-> {},
     rejectPrefix |-> "Notion API request (delete-a-block) failed with status ",
     failText |-> "Failed to execute Notion delete-a-block due to a network or unexpected error."]

notionUpdateABlock ==
    [name |-> "notionUpdateABlock", token |-> "bound", method |-> "PATCH",
     path |-> <<"/blocks/", "block_id">>, pathArgs |-> {2},
     required |-> {"block_id"},
     optional |-> {"archived", "paragraph", "heading_1", "heading_2", "heading_3",
                   "bulleted_list_item", "numbered_list_item", "to_do", "toggle",
                   "quote", "callout"},
     rejectPrefix |-> "Notion API request (update-a-block) failed with status ",
     failText |-> "Failed to execute Notion update-a-block due to a network or unexpected error."]

notionGetBlockChildren ==
    [name |-> "notionGetBlockChildren", token |-> "bound", method |-> "GET",
     path |-> <<"/blocks/", "block_id", "/children">>, pathArgs |-> {2},
     required |-> {"block_id"}, optional |-> {"start_cursor", "page_size"},
     rejectPrefix |-> "Notion API request (get-block-children) failed with status ",
     failText |-> "Failed to execute Notion get-block-children due to a network or unexpected error."]

notionPatchBlockChildren ==
    [name |-> "notionPatchBlockChildren", token |-> "bound", method |-> "PATCH",
     path |-> <<"/blocks/", "block_id", "/children">>, pathArgs |-> {2},
     required |-> {"block_id", "children"}, optional |-> {"after"},
     rejectPrefix |-> "Notion API request (patch-block-children) failed with status ",
     failText |-> "Failed to execute Notion patch-block-children due to a network or unexpected error."]

notionRetrieveAPage ==
    [name |-> "notionRetrieveAPage", token |-> "bound", method |-> "GET",
     path |-> <<"/pages/", "page_id">>, pathArgs |-> {2},
     required |-> {"page_id"}, optional |-> {"filter_properties"},
     rejectPrefix |-> "Notion API request (retrieve-a-page) failed with status ",
     failText |-> "Failed to execute Notion retrieve-a-page due to a network or unexpected error."]

notionPostPage ==
    [name |-> "notionPostPage", token |-> "bound", method |-> "POST",
     path |-> <<"/pages">>, pathArgs |-> {},
     required |-> {"parent", "properties"}, optional |-> {"children", "icon", "cover"},
     rejectPrefix |-> "Notion API request failed with status ",
     failText |-> "Failed to execute Notion create page due to a network or unexpected error."]

notionPatchPage ==
    [name |-> "notionPatchPage", token |-> "bound", method |-> "PATCH",
     path |-> <<"/pages/", "page_id">>, pathArgs |-> {2},
     required |-> {"page_id"}, optional |-> {"properties", "archived", "icon", "cover"},
     rejectPrefix |-> "Notion API request (patch-page) failed with status ",
     failText |-> "Failed to execute Notion patch-page due to a network or unexpected error."]

notionRetrieveAPageProperty ==
    [name |-> "notionRetrieveAPageProperty", token |-> "bound", method |-> "GET",
     path |-> <<"/pages/", "page_id", "/properties/", "property_id">>, pathArgs |-> {2, 4},
     required |-> {"page_id", "property_id"}, optional |-> {"page_size", "start_cursor"},
     rejectPrefix |-> "Notion API request failed with status ",
     failText |-> "Failed to execute Notion retrieve page property due to a network or unexpected error."]

notionRetrieveADatabase ==
    [name |-> "notionRetrieveADatabase", token |-> "bound", method |-> "GET",
     path |-> <<"/databases/", "database_id">>, pathArgs |-> {2},
     required |-> {"database_id"}, optional |-> {},
     rejectPrefix |-> "Notion API request failed with status ",
     failText |-> "Failed to execute Notion retrieve database due to a network or unexpected error."]

notionCreateADatabase ==
    [name |-> "notionCreateADatabase", token |-> "bound", method |-> "POST",
     path |-> <<"/databases">>, pathArgs |-> {},
     required |-> {"parent", "propertiesJson"}, optional |-> {"title"},
     rejectPrefix |-> "Notion API request failed with status ",
     failText |-> "Failed to execute Notion create a database due to a network or unexpected error."]

notionUpdateADatabase ==
    [name |-> "notionUpdateADatabase", token |-> "bound", method |-> "PATCH",
     path |-> <<"/databases/", "database_id">>, pathArgs |-> {2},
     required |-> {"database_id"}, optional |-> {"title", "description", "properties"},
     rejectPrefix |-> "Notion API request failed with status ",
     failText |-> "Failed to execute Notion update database due to a network or unexpected error."]

notionPostDatabaseQuery ==
    [name |-> "notionPostDatabaseQuery", token |-> "bound", method |-> "POST",
     path |-> <<"/databases/", "database_id", "/query">>, pathArgs |-> {2},
     required |-> {"database_id"},
     optional |-> {"filter_properties", "filter", "sorts", "start_cursor",
                   "page_size", "archived", "in_trash"},
     rejectPrefix |-> "Notion API request (post-database-query) failed with status ",
     failText |-> "Failed to execute Notion post-database-query due to a network or unexpected error."]

notionGetUsers ==
    [name |-> "notionGetUsers", token |-> "bound", method |-> "GET",
     path |-> <<"/users">>, pathArgs |-> {},
     required |-> {}, optional |-> {"start_cursor", "page_size"},
     rejectPrefix |-> "Notion API request (get-users) failed with status ",
     failText |-> "Failed to execute Notion get-users due to a network or unexpected error."]

notionGetUser ==
    [name |-> "notionGetUser", token |-> "bound", method |-> "GET",
     path |-> <<"/users/", "user_id">>, pathArgs |-> {2},
     required |-> {"user_id"}, optional |-> {},
     rejectPrefix |-> "Notion API request failed with status ",
     failText |-> "Failed to execute Notion get user due to a network or unexpected error."]

\* The second notionGetUser of the repository: tool({...}) itself, no factory;
\* notionToken is a required string argument of the call.
notionGetUser_tokenArg ==
    [name |-> "notionGetUser_tokenArg", token |-> "arg", method |-> "GET",
     path |-> <<"/users/", "user_id">>, pathArgs |-> {2},
     required |-> {"notionToken", "user_id"}, optional |-> {},
     rejectPrefix |-> "Notion API request failed with status ",
     failText |-> "Failed to execute Notion get user due to a network or unexpected error."]

notionGetSelf ==
    [name |-> "notionGetSelf", token |-> "bound", method |-> "GET",
     path |-> <<"/users/me">>, pathArgs |-> {},
     required |-> {}, optional |-> {},
     rejectPrefix |-> "Notion API request failed with status ",
     failText |-> "Failed to execute Notion get-self due to a network or unexpected error."]

notionRetrieveAComment ==
    [name |-> "notionRetrieveAComment", token |-> "bound", method |-> "GET",
     path |-> <<"/comments">>, pathArgs |-> {},
     required |-> {"block_id"}, optional |-> {"page_size", "start_cursor"},
     rejectPrefix |-> "Notion API request failed with status ",
     failText |-> "Failed to execute Notion retrieve comment due to a network or unexpected error."]

notionCreateAComment ==
    [name |-> "notionCreateAComment", token |-> "bound", method |-> "POST",
     path |-> <<"/comments">>, pathArgs |-> {},
     required |-> {"parent", "rich_text"}, optional |-> {},
     rejectPrefix |-> "Notion API request failed with status ",
     failText |-> "Failed to execute Notion create comment due to a network or unexpected error."]

\* tool({...}) itself, no factory; notionToken is a required string argument.
notionPostSearch ==
    [name |-> "notionPostSearch", token |-> "arg", method |-> "POST",
     path |-> <<"/search">>, pathArgs |-> {},
     required |-> {"notionToken", "query"},
     optional |-> {"sort", "filter", "start_cursor", "page_size"},
     rejectPrefix |-> "Notion API request failed with status ",
     failText |-> "Failed to execute Notion search due to a network or unexpected error."]

\* Every tool adapter of the repository.
Adapters ==
    {notionRetrieveABlock, notionDeleteABlock, notionUpdateABlock,
     notionGetBlockChildren, notionPatchBlockChildren, notionRetrieveAPage,
     notionPostPage, notionPatchPage, notionRetrieveAPageProperty,
     notionRetrieveADatabase, notionCreateADatabase, notionUpdateADatabase,
     notionPostDatabaseQuery, notionGetUsers, notionGetUser,
     notionGetUser_tokenArg, notionGetSelf, notionRetrieveAComment,
     notionCreateAComment, notionPostSearch}

\* The adapter record of a tool name.
AdapterOf(n) == CHOOSE a \in Adapters : a.name = n

\* ------------------------------------------------------- JavaScript values

\* The JavaScript type of the value the schema of adapter a accepts for key k
\* ("csv": a string holding a comma-separated list, kept as the sequence of
\* the pieces between its commas, so the empty string is <<"">>).
FieldType(a, k) ==
    CASE k \in {"block_id", "page_id", "database_id", "user_id", "property_id",
                "start_cursor", "after", "query", "notionToken", "propertiesJson"}
            -> "string"
      [] k = "page_size" -> "number"
      [] k \in {"archived", "in_trash"} -> "boolean"
      [] k = "filter_properties" /\ a.name = "notionRetrieveAPage" -> "csv"
      [] k \in {"title", "description", "children", "rich_text", "sorts",
                "filter_properties"} -> "array"
      [] OTHER -> "object"

\* JavaScript truthiness of a value of the given type: if (v) ...
Truthy(type, v) ==
    CASE type = "string" -> v # "" /\ v # Null
      [] type = "number" -> v # 0
      [] type = "boolean" -> v
      [] type = "csv" -> v # <<"">>
      [] OTHER -> TRUE

\* !notionToken is false: the closure's token is neither null nor "".
TokenPresent(notionToken) == Truthy("string", notionToken)

GoodPropertiesJson == "{\"Name\":{\"title\":{}}}"

BadPropertiesJson == "{Name:"

EmptyObject == [k \in {} |-> Null]

\* JSON.parse / response.json() on the texts the model uses: the decoded
\* value, or the message of the SyntaxError it throws.
JsonParse(text) ==
    CASE text = "{\"object\":\"block\"}"
            -> [ok |-> TRUE, value |-> [object |-> "block"]]
      [] text = "{\"object\":\"list\"}"
            -> [ok |-> TRUE, value |-> [object |-> "list"]]
      [] text = "{\"code\":\"object_not_found\"}"
            -> [ok |-> TRUE, value |-> [code |-> "object_not_found"]]
      [] text = GoodPropertiesJson
            -> [ok |-> TRUE, value |-> [Name |-> [title |-> EmptyObject]]]
      [] text = ""
            -> [ok |-> FALSE, message |-> "Unexpected end of JSON input"]
      [] text = "<html>502 Bad Gateway</html>"
            -> [ok |-> FALSE, message |-> "Unexpected token < in JSON at position 0"]
      [] text = BadPropertiesJson
            -> [ok |-> FALSE, message |-> "Unexpected token N in JSON at position 1"]
      [] text = Null
            -> [ok |-> FALSE, message |-> "\"undefined\" is not valid JSON"]

Digit(d) == CASE d = 0 -> "0" [] d = 1 -> "1" [] d = 2 -> "2" [] d = 3 -> "3"
              [] d = 4 -> "4" [] d = 5 -> "5" [] d = 6 -> "6" [] d = 7 -> "7"
              [] d = 8 -> "8" [] d = 9 -> "9"

RECURSIVE NatToString(_)
NatToString(n) ==
    IF n < 10 THEN Digit(n) ELSE NatToString(n \div 10) \o Digit(n % 10)

\* String(n), n.toString() and `${n}` of an integer.
NumberToString(n) == IF n < 0 THEN "-" \o NatToString(-n) ELSE NatToString(n)

\* String.prototype.trim on the strings the model uses.
Trim(s) ==
    CASE s = " id-2" -> "id-2"
      [] s = " secret_B " -> "secret_B"
      [] s = "  " -> ""
      [] OTHER -> s

\* ------------------------------------------------------------ the arguments

RichText == <<[text |-> [content |-> "hello"]]>>

\* Child block objects: for each type, with the content object of the type,
\* with none, with the other one, with both.
ChildBlocks ==
    {[type |-> "paragraph", paragraph |-> [rich_text |-> RichText]],
     [type |-> "bulleted_list_item", bulleted_list_item |-> [rich_text |-> RichText]],
     [type |-> "paragraph"],
     [type |-> "paragraph", bulleted_list_item |-> [rich_text |-> RichText]],
     [type |-> "paragraph", paragraph |-> [rich_text |-> RichText],
      bulleted_list_item |-> [rich_text |-> RichText]]}

\* The values the model supplies for key k of adapter a; every one is of the
\* type the schema declares for the key.
FieldValues(a, k) ==
    LET type == FieldType(a, k) IN
    CASE k = "notionToken" -> {"", "secret_A"}
      [] k = "propertiesJson" -> {GoodPropertiesJson, BadPropertiesJson}
      [] k = "block_id" -> {"id-1", "id-1/children"}
      [] k = "start_cursor" -> {"id-1", ""}
      [] type = "string" -> {"id-1"}
      [] type = "number" -> {50, 0}
      [] type = "boolean" -> {TRUE, FALSE}
      [] type = "csv" -> {<<"id-1", " id-2">>, <<"">>}
      [] k = "filter_properties" -> {<<"id-1">>}
      [] k = "children" -> {<<>>} \cup {<<c>> : c \in ChildBlocks}
      [] k = "parent" -> {[page_id |-> "id-1"]}
      [] k = "properties" -> {[title |-> RichText]}
      [] k = "title" -> {<<>>, RichText}
      [] k \in {"paragraph", "heading_1", "heading_2", "heading_3",
                "bulleted_list_item", "numbered_list_item", "to_do", "toggle",
                "quote", "callout"}
            -> {[rich_text |-> RichText]}
      [] type = "array" -> {RichText}
      [] OTHER -> {[type |-> "external"]}

Extend(f, k, v) == [x \in DOMAIN f \cup {k} |-> IF x = k THEN v ELSE f[x]]

\* Every argument object over exactly the keys S.
RECURSIVE ArgsOver(_, _)
ArgsOver(a, S) ==
    IF S = {} THEN {EmptyObject}
    ELSE LET k == CHOOSE x \in S : TRUE
         IN  {Extend(f, k, v) : f \in ArgsOver(a, S \ {k}), v \in FieldValues(a, k)}

\* The key sets of the argument objects the model invokes adapter a with:
\* all required keys and up to MaxOptional optional ones, or all required
\* keys but one.
SuppliedKeys(a) ==
    {a.required \cup O : O \in {X \in SUBSET a.optional : Cardinality(X) <= MaxOptional}}
    \cup {a.required \ {r} : r \in a.required}

ArgSpace(a) == UNION {ArgsOver(a, S) : S \in SuppliedKeys(a)}

\* ------------------------------------------------------- schema validation

\* The block-specific keys of UpdateBlockParametersSchema, in schema order.
BlockSpecificKeys ==
    <<"paragraph", "heading_1", "heading_2", "heading_3", "bulleted_list_item",
      "numbered_list_item", "to_do", "toggle", "quote", "callout">>

BlockSpecificSupplied(args) ==
    {n \in 1..Len(BlockSpecificKeys) : BlockSpecificKeys[n] \in DOMAIN args}

\* UpdateBlockRefine that accepts an object with nothing to update.
UpdateBlockRefineAcceptsNone(args) == ~(Cardinality(BlockSpecificSupplied(args)) > 1)

\* UpdateBlockRefine without its check of more than one update.
UpdateBlockRefineAllowsMany(args) ==
    ~("archived" \notin DOMAIN args /\ Cardinality(BlockSpecificSupplied(args)) = 0)

\* The .refine of UpdateBlockParametersSchema.
UpdateBlockRefine(args) ==
    LET updateKeys == BlockSpecificSupplied(args) IN
    /\ ~("archived" \notin DOMAIN args /\ Cardinality(updateKeys) = 0)
    /\ ~(Cardinality(updateKeys) > 1)

\* ChildBlockRefine that accepts any content objects.
ChildBlockRefineAnyContent(child) == child.type \in {"paragraph", "bulleted_list_item"}

\* The .refine of ChildBlockObjectSchema (patch-block-children).
ChildBlockRefine(child) ==
    CASE child.type = "paragraph" ->
            "paragraph" \in DOMAIN child /\ "bulleted_list_item" \notin DOMAIN child
      [] child.type = "bulleted_list_item" ->
            "bulleted_list_item" \in DOMAIN child /\ "paragraph" \notin DOMAIN child
      [] OTHER -> FALSE

\* children of patch-block-children: z.array(ChildBlockObjectSchema).min(1).
\* The children of create-page have no refinement and no minimum.
ChildrenAccepted(a, args) ==
    (a.name = "notionPatchBlockChildren" /\ "children" \in DOMAIN args) =>
        /\ Len(args["children"]) >= 1
        /\ \A n \in 1..Len(args["children"]) : ChildBlockRefine(args["children"][n])

\* SchemaAccepts with every key of the schema optional.
SchemaAcceptsAllOptional(a, args) ==
    a.name = "notionUpdateABlock" => UpdateBlockRefine(args)

\* z.object({...}).parse(args) succeeds: every non-optional key is present
\* (the values the model supplies are of the declared types), and the
\* schema's refinement holds.
SchemaAccepts(a, args) ==
    /\ a.required \subseteq DOMAIN args
    /\ a.name = "notionUpdateABlock" => UpdateBlockRefine(args)
    /\ ChildrenAccepted(a, args)

\* ------------------------------------------------------------- the request

Has(args, k) == k \in DOMAIN args

\* args.k: undefined when the key was not supplied.
Get(args, k) == IF Has(args, k) THEN args[k] ELSE Null

\* `${v}` of a string or of undefined.
TemplateText(v) == IF v = Null THEN "undefined" ELSE v

\* IsTruthy as `args.k !== undefined`.
IsTruthyAsDefined(a, args, k) == Has(args, k)

\* if (args.k) ...
IsTruthy(a, args, k) == Has(args, k) /\ Truthy(FieldType(a, k), args[k])

RECURSIVE PathFrom(_, _, _)
PathFrom(a, args, n) ==
    IF n > Len(a.path) THEN ""
    ELSE (IF n \in a.pathArgs THEN TemplateText(Get(args, a.path[n])) ELSE a.path[n])
         \o PathFrom(a, args, n + 1)

\* `${NOTION_API_BASE_URL}/...${id}...`: the URL without its query string.
RequestUrl(a, args) == NOTION_API_BASE_URL \o PathFrom(a, args, 1)

Param(cond, k, v) == IF cond THEN <<<<k, v>>>> ELSE <<>>

\* FilterPropertiesParams without the trim.
FilterPropertiesParamsUntrimmed(pieces) ==
    [n \in 1..Len(pieces) |-> <<"filter_properties", pieces[n]>>]

\* One filter_properties parameter per piece of filter_properties.split(','),
\* each piece trimmed.
FilterPropertiesParams(pieces) ==
    [n \in 1..Len(pieces) |-> <<"filter_properties", Trim(pieces[n])>>]

\* The query parameters appended to the URL, in the order the code appends.
RequestQuery(a, args) ==
    CASE a.name \in {"notionGetUsers", "notionGetBlockChildren"} ->
            Param(IsTruthy(a, args, "start_cursor"), "start_cursor",
                  IF Has(args, "start_cursor") THEN args["start_cursor"] ELSE Null)
            \o Param(Has(args, "page_size"), "page_size",
                     IF Has(args, "page_size")
                     THEN NumberToString(args["page_size"]) ELSE Null)
      [] a.name = "notionRetrieveAComment" ->
            <<<<"block_id", TemplateText(Get(args, "block_id"))>>>>
            \o Param(IsTruthy(a, args, "page_size"), "page_size",
                     IF Has(args, "page_size")
                     THEN NumberToString(args["page_size"]) ELSE Null)
            \o Param(IsTruthy(a, args, "start_cursor"), "start_cursor",
                     IF Has(args, "start_cursor") THEN args["start_cursor"] ELSE Null)
      [] a.name = "notionRetrieveAPageProperty" ->
            Param(IsTruthy(a, args, "page_size"), "page_size",
                  IF Has(args, "page_size")
                  THEN NumberToString(args["page_size"]) ELSE Null)
            \o Param(IsTruthy(a, args, "start_cursor"), "start_cursor",
                     IF Has(args, "start_cursor") THEN args["start_cursor"] ELSE Null)
      [] a.name = "notionRetrieveAPage" ->
            IF IsTruthy(a, args, "filter_properties")
            THEN FilterPropertiesParams(args["filter_properties"])
            ELSE <<>>
      [] OTHER -> <<>>

\* Copied without the `if (v)` assignments.
CopiedWithoutIfTruthy(a, args, always, ifTruthy, ifDefined) ==
    {k \in always \cup ifDefined : k \in DOMAIN args}

\* The keys of args copied into requestBody: those always copied (a key whose
\* value is undefined is not serialised), those copied `if (v)`, and those
\* copied `if (v !== undefined)`.
Copied(a, args, always, ifTruthy, ifDefined) ==
    {k \in always : Has(args, k)}
        \cup {k \in ifTruthy : IsTruthy(a, args, k)}
        \cup {k \in ifDefined : Has(args, k)}

\* update-a-block: the first block-specific key that is not undefined.
FirstBlockSpecific(args) ==
    LET S == BlockSpecificSupplied(args) IN
    IF S = {} THEN {}
    ELSE {BlockSpecificKeys[CHOOSE n \in S : \A m \in S : n <= m]}

\* The keys of requestBody that are copied from args.
BodyKeys(a, args) ==
    CASE a.name = "notionPostSearch" ->
            Copied(a, args, {"query"}, {"sort", "filter", "start_cursor", "page_size"}, {})
      [] a.name = "notionPatchBlockChildren" ->
            Copied(a, args, {"children"}, {"after"}, {})
      [] a.name = "notionPostPage" ->
            Copied(a, args, {"parent", "properties"}, {"children", "icon", "cover"}, {})
      [] a.name = "notionPatchPage" ->
            Copied(a, args, {}, {}, {"properties", "archived", "icon", "cover"})
      [] a.name = "notionUpdateABlock" ->
            Copied(a, args, {}, {}, {"archived"}) \cup FirstBlockSpecific(args)
      [] a.name = "notionCreateADatabase" ->
            Copied(a, args, {"parent"}, {"title"}, {})
      [] a.name = "notionUpdateADatabase" ->
            Copied(a, args, {}, {"title", "description", "properties"}, {})
      [] a.name = "notionPostDatabaseQuery" ->
            Copied(a, args, {}, {"filter", "sorts", "start_cursor"},
                   {"page_size", "archived", "in_trash"})
      [] a.name = "notionCreateAComment" ->
            Copied(a, args, {"parent", "rich_text"}, {}, {})
      [] OTHER -> {}

\* RequestBody without the parsed properties of create-a-database.
RequestBodyWithoutProperties(a, args) == [k \in BodyKeys(a, args) |-> args[k]]

\* requestBody, the object given to JSON.stringify (create-a-database adds
\* the parsed propertiesJson as properties).
RequestBody(a, args) ==
    LET copied == [k \in BodyKeys(a, args) |-> args[k]] IN
    IF a.name = "notionCreateADatabase"
    THEN Extend(copied, "properties", JsonParse(Get(args, "propertiesJson")).value)
    ELSE copied

\* The fetch of adapter a with bearer token tok.
Request(a, tok, args) ==
    [method |-> a.method,
     url |-> RequestUrl(a, args),
     query |-> RequestQuery(a, args),
     headers |-> [Authorization |-> "Bearer " \o TemplateText(tok),
                  NotionVersion |-> NOTION_API_VERSION,
                  ContentType |-> "application/json"],
     body |-> IF a.method \in {"POST", "PATCH"}
              THEN [present |-> TRUE, json |-> RequestBody(a, args)]
              ELSE [present |-> FALSE]]

\* ------------------------------------------------------------- the results

NoUpdateError ==
    [error |-> "No update operation specified (archived or block content)."]

NothingToUpdateError ==
    [error |-> "At least one property (title, description, or properties) must be provided to update the database."]

InvalidJsonError(message) ==
    [error |-> "Invalid JSON string provided for \"propertiesJson\".",
     details |-> message]

\* Catch with the exception thrown on past execute.
CatchRethrows(a, message) == [thrown |-> message]

\* The catch block: error instanceof Error ? error.message : String(error).
Catch(a, message) == [error |-> a.failText, details |-> message]

\* Rejection with the status left out of the message.
RejectionWithoutStatus(a, status, errorData) ==
    [error |-> a.rejectPrefix, details |-> errorData]

\* The return of the `if (!response.ok)` branch.
Rejection(a, status, errorData) ==
    [error |-> a.rejectPrefix \o NumberToString(status), details |-> errorData]

\* response.ok
ResponseOk(status) == status >= 200 /\ status <= 299

\* LocalError without update-a-database's check of an empty requestBody.
LocalErrorNoEmptyCheck(a, args) ==
    CASE a.name = "notionCreateADatabase" /\ ~JsonParse(Get(args, "propertiesJson")).ok ->
            [returned |-> TRUE,
             value |-> InvalidJsonError(JsonParse(Get(args, "propertiesJson")).message)]
      [] OTHER -> [returned |-> FALSE]

\* The checks an execute makes on its arguments before it fetches: the
\* result it returns early, if any.
LocalError(a, args) ==
    CASE a.name = "notionCreateADatabase" /\ ~JsonParse(Get(args, "propertiesJson")).ok ->
            [returned |-> TRUE,
             value |-> InvalidJsonError(JsonParse(Get(args, "propertiesJson")).message)]
      [] a.name = "notionUpdateADatabase" /\ BodyKeys(a, args) = {} ->
            [returned |-> TRUE, value |-> NothingToUpdateError]
      [] a.name = "notionUpdateABlock" /\ BodyKeys(a, args) = {} ->
            [returned |-> TRUE, value |-> NoUpdateError]
      [] OTHER -> [returned |-> FALSE]

\* The bearer token of the call: the factory's closure, or the argument.
TokenOf(a, notionToken, args) ==
    IF a.token = "bound" THEN notionToken ELSE Get(args, "notionToken")

\* ExecuteSync with the checks of the arguments before the check of the token.
ExecuteSyncLocalFirst(a, notionToken, args) ==
    IF LocalError(a, args).returned
    THEN LocalError(a, args)
    ELSE IF a.token = "bound" /\ ~TokenPresent(notionToken)
    THEN [returned |-> TRUE, value |-> MissingTokenError]
    ELSE [returned |-> FALSE, request |-> Request(a, TokenOf(a, notionToken, args), args)]

\* execute up to its first await: either it returns a result without a
\* network call, or it calls fetch.
ExecuteSync(a, notionToken, args) ==
    IF a.token = "bound" /\ ~TokenPresent(notionToken)
    THEN [returned |-> TRUE, value |-> MissingTokenError]
    ELSE IF LocalError(a, args).returned
    THEN LocalError(a, args)
    ELSE [returned |-> FALSE, request |-> Request(a, TokenOf(a, notionToken, args), args)]

\* execute after its fetch settled with outcome o: fetch threw, or it
\* resolved with a response whose body is the text o.text.
AfterFetch(a, o) ==
    IF o.kind = "throw" THEN Catch(a, o.message)
    ELSE LET decoded == JsonParse(o.text) IN
         IF ~ResponseOk(o.status)
         THEN IF decoded.ok THEN Rejection(a, o.status, decoded.value)
              ELSE Catch(a, decoded.message)
         ELSE IF decoded.ok THEN decoded.value
              ELSE Catch(a, decoded.message)

\* --------------------------------------------------------------- the state

VARIABLES
    storage,          \* localStorage[NOTION_TOKEN_LOCAL_STORAGE_KEY], or Null
    mounted,          \* per connector: its mount effect has run
    open,             \* per connector: useState(false)
    secretInputValue, \* per connector: useState('')
    isConfigured,     \* per connector: useState(false)
    logged,           \* the last line written by console.log, <<>> before any
    tool,             \* per invocation: the name of the tool built, or "none"
    notionToken,      \* per invocation: the token the factory closed over
    args,             \* per invocation: the argument object of the call
    pc,               \* per invocation: idle, ready, rejected, pending, done
    sent,             \* per invocation: the requests fetch was called with
    hung,             \* per invocation: the remote never settles the fetch
    resp,             \* per invocation: what the fetch settled with
    result            \* per invocation: what execute returned

connector == <<storage, mounted, open, secretInputValue, isConfigured, logged>>

calls == <<tool, notionToken, args, pc, sent, hung, resp, result>>

vars == <<storage, mounted, open, secretInputValue, isConfigured, logged,
          tool, notionToken, args, pc, sent, hung, resp, result>>

Inv == 1..NumInv

Conn == 1..NumConn

\* The secrets a user may have saved.
Secrets == {"secret_A", "secret_B"}

NoResponse == [kind |-> "none"]

NoResult == [none |-> TRUE]

\* The HTTP statuses and the response texts of the remote service.
Statuses == {200, 404, 502}

ResponseTexts ==
    {"{\"object\":\"block\"}", "{\"code\":\"object_not_found\"}", "",
     "<html>502 Bad Gateway</html>"}

\* What a fetch can settle with: it rejects, or it resolves with a response.
Outcomes ==
    {[kind |-> "throw", message |-> "fetch failed"]}
    \cup {[kind |-> "response", status |-> s, text |-> t] :
            s \in Statuses, t \in ResponseTexts}

Init ==
    /\ storage \in {Null} \cup Secrets
    /\ mounted = [c \in Conn |-> FALSE]
    /\ open = [c \in Conn |-> FALSE]
    /\ secretInputValue = [c \in Conn |-> ""]
    /\ isConfigured = [c \in Conn |-> FALSE]
    /\ logged = <<>>
    /\ tool = [i \in Inv |-> "none"]
    /\ notionToken = [i \in Inv |-> Null]
    /\ args = [i \in Inv |-> EmptyObject]
    /\ pc = [i \in Inv |-> "idle"]
    /\ sent = [i \in Inv |-> <<>>]
    /\ hung = [i \in Inv |-> FALSE]
    /\ resp = [i \in Inv |-> NoResponse]
    /\ result = [i \in Inv |-> NoResult]

\* ------------------------------------------------------- the tool invocations

\* The credential the chat request hands to the tool factories: the stored
\* secret; with nothing stored, null or the empty string.
CurrentCredential == IF storage = Null THEN {Null, ""} ELSE {storage}

\* The tools of a request are built: a factory closes over the credential
\* (notionPostSearch and the token-argument notionGetUser close over none).
Construct(i, a, tok) ==
    /\ pc[i] = "idle"
    /\ tok \in CurrentCredential
    /\ tool' = [tool EXCEPT ![i] = a.name]
    /\ notionToken' = [notionToken EXCEPT ![i] = IF a.token = "bound" THEN tok ELSE Null]
    /\ pc' = [pc EXCEPT ![i] = "ready"]
    /\ UNCHANGED <<connector, args, sent, hung, resp, result>>

\* The agent runtime calls the tool (of adapter a) with the argument object
\* ar: the schema is checked, then execute runs up to its fetch. silent: the remote service
\* will never settle this fetch.
Invoke(i, a, ar, silent) ==
    /\ pc[i] = "ready"
    /\ tool[i] = a.name
    /\ ar \in ArgSpace(a)
    /\ args' = [args EXCEPT ![i] = ar]
    /\ IF ~SchemaAccepts(a, ar)
       THEN /\ pc' = [pc EXCEPT ![i] = "rejected"]
            /\ UNCHANGED <<sent, hung, result>>
       ELSE LET e == ExecuteSync(a, notionToken[i], ar) IN
            IF e.returned
            THEN /\ pc' = [pc EXCEPT ![i] = "done"]
                 /\ result' = [result EXCEPT ![i] = e.value]
                 /\ UNCHANGED <<sent, hung>>
            ELSE /\ pc' = [pc EXCEPT ![i] = "pending"]
                 /\ sent' = [sent EXCEPT ![i] = Append(sent[i], e.request)]
                 /\ hung' = [hung EXCEPT ![i] = silent]
                 /\ UNCHANGED result
    /\ UNCHANGED <<connector, tool, notionToken, resp>>

\* Settled with the continuations run in the order of the invocations.
SettledInOrder(i) ==
    /\ pc[i] = "pending" /\ ~hung[i]
    /\ \A j \in Inv : j < i => pc[j] # "pending"

\* The continuation of invocation i may run: its own fetch has settled.
Settled(i) == pc[i] = "pending" /\ ~hung[i]

\* Respond with one more fetch after a failed one.
RespondRetries(i, o) ==
    /\ Settled(i)
    /\ resp' = [resp EXCEPT ![i] = o]
    /\ IF (o.kind = "throw" \/ ~ResponseOk(o.status)) /\ Len(sent[i]) < 2
       THEN /\ sent' = [sent EXCEPT ![i] = Append(sent[i], sent[i][1])]
            /\ UNCHANGED <<pc, result>>
       ELSE /\ result' = [result EXCEPT ![i] = AfterFetch(AdapterOf(tool[i]), o)]
            /\ pc' = [pc EXCEPT ![i] = "done"]
            /\ UNCHANGED sent
    /\ UNCHANGED <<connector, tool, notionToken, args, hung>>

\* The fetch of invocation i settles with outcome o and execute returns.
Respond(i, o) ==
    /\ Settled(i)
    /\ resp' = [resp EXCEPT ![i] = o]
    /\ result' = [result EXCEPT ![i] = AfterFetch(AdapterOf(tool[i]), o)]
    /\ pc' = [pc EXCEPT ![i] = "done"]
    /\ UNCHANGED <<connector, tool, notionToken, args, sent, hung>>

\* The request is over: its tool descriptor and its result are dropped.
Discard(i) ==
    /\ pc[i] \in {"done", "rejected"}
    /\ tool' = [tool EXCEPT ![i] = "none"]
    /\ notionToken' = [notionToken EXCEPT ![i] = Null]
    /\ args' = [args EXCEPT ![i] = EmptyObject]
    /\ pc' = [pc EXCEPT ![i] = "idle"]
    /\ sent' = [sent EXCEPT ![i] = <<>>]
    /\ hung' = [hung EXCEPT ![i] = FALSE]
    /\ resp' = [resp EXCEPT ![i] = NoResponse]
    /\ result' = [result EXCEPT ![i] = NoResult]
    /\ UNCHANGED connector

\* ------------------------------------------------------------ the connector

\* What the user may type into the input field.
InputValues == {"secret_A", " secret_B ", "  "}

\* The chatId prop of connector c.
ChatId(c) == "chat-" \o NatToString(c)

\* The key a connector reads and writes: the same for every chatId.
StorageKey(c) == NOTION_TOKEN_LOCAL_STORAGE_KEY

\* localStorage.getItem(key)
GetItem(key) == IF key = NOTION_TOKEN_LOCAL_STORAGE_KEY THEN storage ELSE Null

\* secretInputValue.substring(0, 5) on the strings the model uses.
Substring05(s) ==
    CASE s = "secret_A" -> "secre"
      [] s = " secret_B " -> " secr"
      [] OTHER -> s

\* The template literals handed to console.log, as the sequences of their
\* pieces.
SavedLine(c) ==
    <<"Saved Notion Integration Secret for chat ", ChatId(c), " to local storage.">>

CloudLine(c, v) ==
    <<"Simulating save on cloud for Notion Integration Secret for chat ",
      ChatId(c), ": ", Substring05(v), "...">>

ClearedLine(c) ==
    <<"Cleared Notion Integration Secret for chat ", ChatId(c), " from local storage.">>

\* MountEffect with the stored token put into the input field.
MountEffectShowsStored(c) ==
    /\ ~mounted[c]
    /\ mounted' = [mounted EXCEPT ![c] = TRUE]
    /\ LET storedToken == GetItem(StorageKey(c)) IN
       IF Truthy("string", storedToken)
       THEN /\ isConfigured' = [isConfigured EXCEPT ![c] = TRUE]
            /\ secretInputValue' = [secretInputValue EXCEPT ![c] = storedToken]
       ELSE /\ isConfigured' = [isConfigured EXCEPT ![c] = FALSE]
            /\ secretInputValue' = [secretInputValue EXCEPT ![c] = ""]
    /\ UNCHANGED <<storage, open, logged, calls>>

\* useEffect(..., []): runs once after the component is mounted.
MountEffect(c) ==
    /\ ~mounted[c]
    /\ mounted' = [mounted EXCEPT ![c] = TRUE]
    /\ LET storedToken == GetItem(StorageKey(c)) IN
       IF Truthy("string", storedToken)
       THEN /\ isConfigured' = [isConfigured EXCEPT ![c] = TRUE]
            /\ UNCHANGED secretInputValue
       ELSE /\ isConfigured' = [isConfigured EXCEPT ![c] = FALSE]
            /\ secretInputValue' = [secretInputValue EXCEPT ![c] = ""]
    /\ UNCHANGED <<storage, open, logged, calls>>

\* onOpenChange={setOpen}: the dropdown is opened or closed.
SetOpen(c, b) ==
    /\ mounted[c]
    /\ open[c] # b
    /\ open' = [open EXCEPT ![c] = b]
    /\ UNCHANGED <<storage, mounted, secretInputValue, isConfigured, logged, calls>>

\* onChange of the input field.
TypeSecret(c, v) ==
    /\ mounted[c] /\ open[c]
    /\ secretInputValue' = [secretInputValue EXCEPT ![c] = v]
    /\ UNCHANGED <<storage, mounted, open, isConfigured, logged, calls>>

\* handleSaveSecret that stores nothing.
handleSaveSecretStoresNothing(c) ==
    /\ mounted[c] /\ open[c]
    /\ IF Truthy("string", Trim(secretInputValue[c]))
       THEN /\ logged' = SavedLine(c)
            /\ isConfigured' = [isConfigured EXCEPT ![c] = TRUE]
            /\ open' = [open EXCEPT ![c] = FALSE]
       ELSE UNCHANGED <<logged, isConfigured, open>>
    /\ UNCHANGED <<storage, mounted, secretInputValue, calls>>

\* handleSaveSecret that stores the input as typed.
handleSaveSecretUntrimmed(c) ==
    /\ mounted[c] /\ open[c]
    /\ IF Truthy("string", Trim(secretInputValue[c]))
       THEN /\ storage' = secretInputValue[c]
            /\ logged' = SavedLine(c)
            /\ isConfigured' = [isConfigured EXCEPT ![c] = TRUE]
            /\ open' = [open EXCEPT ![c] = FALSE]
       ELSE UNCHANGED <<storage, logged, isConfigured, open>>
    /\ UNCHANGED <<mounted, secretInputValue, calls>>

handleSaveSecret(c) ==
    /\ mounted[c] /\ open[c]
    /\ IF Truthy("string", Trim(secretInputValue[c]))
       THEN /\ storage' = Trim(secretInputValue[c])
            /\ logged' = SavedLine(c)
            /\ isConfigured' = [isConfigured EXCEPT ![c] = TRUE]
            /\ open' = [open EXCEPT ![c] = FALSE]
       ELSE UNCHANGED <<storage, logged, isConfigured, open>>
    /\ UNCHANGED <<mounted, secretInputValue, calls>>

\* handleSaveOnCloud with its commented-out statements run.
handleSaveOnCloudConfigures(c) ==
    /\ mounted[c] /\ open[c]
    /\ IF Truthy("string", Trim(secretInputValue[c]))
       THEN /\ logged' = CloudLine(c, secretInputValue[c])
            /\ isConfigured' = [isConfigured EXCEPT ![c] = TRUE]
            /\ open' = [open EXCEPT ![c] = FALSE]
       ELSE UNCHANGED <<logged, isConfigured, open>>
    /\ UNCHANGED <<storage, mounted, secretInputValue, calls>>

handleSaveOnCloud(c) ==
    /\ mounted[c] /\ open[c]
    /\ IF Truthy("string", Trim(secretInputValue[c]))
       THEN logged' = CloudLine(c, secretInputValue[c])
       ELSE UNCHANGED logged
    /\ UNCHANGED <<storage, mounted, open, secretInputValue, isConfigured, calls>>

\* The Disconnect button, rendered only when isConfigured.
handleClearSecret(c) ==
    /\ mounted[c] /\ open[c] /\ isConfigured[c]
    /\ storage' = Null
    /\ logged' = ClearedLine(c)
    /\ secretInputValue' = [secretInputValue EXCEPT ![c] = ""]
    /\ isConfigured' = [isConfigured EXCEPT ![c] = FALSE]
    /\ UNCHANGED <<mounted, open, calls>>

\* The component is unmounted; the next instance starts from its useState
\* initial values.
Unmount(c) ==
    /\ mounted[c]
    /\ mounted' = [mounted EXCEPT ![c] = FALSE]
    /\ open' = [open EXCEPT ![c] = FALSE]
    /\ secretInputValue' = [secretInputValue EXCEPT ![c] = ""]
    /\ isConfigured' = [isConfigured EXCEPT ![c] = FALSE]
    /\ UNCHANGED <<storage, logged, calls>>

ConnectorStep(c) ==
    \/ MountEffect(c)
    \/ \E b \in BOOLEAN : SetOpen(c, b)
    \/ \E v \in InputValues : TypeSecret(c, v)
    \/ handleSaveSecret(c)
    \/ handleSaveOnCloud(c)
    \/ handleClearSecret(c)
    \/ Unmount(c)

\* Several connectors on the one browser, no tool invocation.
NextConn == \E c \in Conn : ConnectorStep(c)

ConnSpec == Init /\ [][NextConn]_vars

\* One invocation at a time, of any adapter with any argument object.
Next ==
    \/ \E a \in Adapters, tok \in {Null, ""} \cup Secrets : Construct(1, a, tok)
    \/ \E a \in Adapters : \E ar \in ArgSpace(a), silent \in BOOLEAN :
          Invoke(1, a, ar, silent)
    \/ \E o \in Outcomes : Respond(1, o)
    \/ Discard(1)

Spec == Init /\ [][Next]_vars


\* ------------------------------------------------ concurrent invocations

\* The adapters, argument objects and outcomes of the concurrent
\* specifications: one adapter per shape of execute (an id in the path, a
\* query string, no argument, the token as an argument), called with exactly
\* its required arguments.
ConcAdapters == {notionRetrieveABlock, notionGetUsers, notionGetSelf, notionPostSearch}

ConcArgs(a) == ArgsOver(a, a.required)

ConcOutcomes ==
    {[kind |-> "throw", message |-> "fetch failed"],
     [kind |-> "response", status |-> 200, text |-> "{\"object\":\"block\"}"]}

ConcCall(silents) ==
    \E i \in Inv :
        \/ \E a \in ConcAdapters, tok \in {Null, ""} \cup Secrets : Construct(i, a, tok)
        \/ \E a \in ConcAdapters : \E ar \in ConcArgs(a), silent \in silents :
              Invoke(i, a, ar, silent)
        \/ \E o \in ConcOutcomes : Respond(i, o)
        \/ Discard(i)

\* Several invocations in flight while the user works the connector.
NextConc == ConnectorStep(1) \/ ConcCall({FALSE})

ConcSpec == Init /\ [][NextConc]_vars

\* Several invocations in flight, some of whose fetches never settle. The
\* event loop runs the continuation of every fetch that has settled.
NextFair == ConcCall(BOOLEAN)

FairSpec ==
    /\ Init
    /\ [][NextFair]_vars
    /\ \A i \in Inv : WF_vars(\E o \in ConcOutcomes : Respond(i, o))

\* ---------------------------------------------------------------- the claims

\* execute of invocation i was called (its arguments passed the schema).
Called(i) == pc[i] \in {"pending", "done"}

AdapterAt(i) == AdapterOf(tool[i])

\* The credential invocation i runs with: the token its factory closed over,
\* or, for a tool built without one, the token among its arguments.
CredentialAt(i) ==
    IF AdapterAt(i).token = "bound" THEN notionToken[i] ELSE Get(args[i], "notionToken")

NoCredential(i) == CredentialAt(i) \in {Null, ""}

\* C1: every adapter invoked with no credential (null or empty token) returns
\* the missing-credential error and performs no network call.
C1_NoCredentialNoNetworkCall ==
    \A i \in Inv :
        (Called(i) /\ NoCredential(i)) =>
            /\ pc[i] = "done"
            /\ result[i] = MissingTokenError
            /\ sent[i] = <<>>

\* C2: with a credential, a non-2xx answer of the remote service is returned
\* as {error, details}: the error message ends with the status code and
\* details is the decoded response body.
C2_NonSuccessPassedThrough ==
    \A i \in Inv :
        (/\ pc[i] = "done" /\ ~NoCredential(i)
         /\ resp[i].kind = "response" /\ ~(resp[i].status \in 200..299)) =>
            /\ "error" \in DOMAIN result[i]
            /\ result[i].error
                 = AdapterAt(i).rejectPrefix \o NumberToString(resp[i].status)
            /\ "details" \in DOMAIN result[i]
            /\ JsonParse(resp[i].text).ok
                 => result[i].details = JsonParse(resp[i].text).value

\* C3: when the network call throws, execute returns the adapter's generic
\* transport-failure error with the text of the underlying error, and no
\* exception leaves execute.
C3_ThrowBecomesTransportFailure ==
    \A i \in Inv :
        /\ "thrown" \notin DOMAIN result[i]
        /\ (pc[i] = "done" /\ resp[i].kind = "throw") =>
              result[i] = [error |-> AdapterAt(i).failText, details |-> resp[i].message]

C3_Witness ==
    \E i \in Inv :
        /\ pc[i] = "done"
        /\ tool[i] = "notionPatchPage"
        /\ resp[i].kind = "throw"
        /\ result[i] = [error |-> "Failed to execute Notion patch-page due to a network or unexpected error.",
                        details |-> "fetch failed"]

\* The invocations of C4's exception: update-a-database with none of title,
\* description and properties, create-a-database with an unparseable
\* propertiesJson.
NothingToSend(i) ==
    \/ /\ tool[i] = "notionUpdateADatabase"
       /\ DOMAIN args[i] \cap {"title", "description", "properties"} = {}
    \/ /\ tool[i] = "notionCreateADatabase"
       /\ Get(args[i], "propertiesJson") = BadPropertiesJson

\* C4 as stated: every invocation with a credential and schema-valid
\* arguments that has returned has issued exactly one HTTP request.
C4_AlwaysOneRequest ==
    \A i \in Inv :
        (pc[i] = "done" /\ ~NoCredential(i)) => Len(sent[i]) = 1

\* C4, amended: an invocation with a credential and schema-valid arguments
\* issues exactly one HTTP request, except update-a-database with nothing to
\* update and create-a-database with an unparseable propertiesJson, which
\* return an error result without any request.
C4_OneRequestUnlessNothingToSend ==
    \A i \in Inv :
        (Called(i) /\ ~NoCredential(i)) =>
            IF NothingToSend(i)
            THEN pc[i] = "done" /\ sent[i] = <<>> /\ "error" \in DOMAIN result[i]
            ELSE Len(sent[i]) = 1

C4_Witness ==
    \E i \in Inv :
        /\ pc[i] = "done"
        /\ tool[i] = "notionUpdateADatabase"
        /\ notionToken[i] = "secret_A"
        /\ DOMAIN args[i] = {"database_id", "title"}
        /\ Len(sent[i]) = 1

\* C5: no adapter retries: an invocation never issues more than one HTTP
\* request, whatever its request settled with.
C5_NoRetry == \A i \in Inv : Len(sent[i]) <= 1

C5_Witness ==
    \E i \in Inv :
        /\ pc[i] = "done"
        /\ resp[i].kind = "response"
        /\ resp[i].status = 502
        /\ Len(sent[i]) = 1

\* The kinds of error result of C6.
IsMissingCredentialError(i) == result[i] = MissingTokenError /\ sent[i] = <<>>

IsRemoteRejection(i) ==
    /\ Len(sent[i]) = 1
    /\ resp[i].kind = "response"
    /\ ~(resp[i].status \in 200..299)
    /\ result[i].error = AdapterAt(i).rejectPrefix \o NumberToString(resp[i].status)
    /\ "details" \in DOMAIN result[i]
    /\ JsonParse(resp[i].text).ok
    /\ result[i].details = JsonParse(resp[i].text).value

IsTransportFailure(i) ==
    /\ Len(sent[i]) = 1
    /\ result[i].error = AdapterAt(i).failText
    /\ "details" \in DOMAIN result[i]
    /\ \/ resp[i].kind = "throw" /\ result[i].details = resp[i].message
       \/ /\ resp[i].kind = "response"
          /\ ~JsonParse(resp[i].text).ok
          /\ result[i].details = JsonParse(resp[i].text).message

IsLocalArgumentError(i) ==
    /\ sent[i] = <<>>
    /\ result[i].error \in
         {"At least one property (title, description, or properties) must be provided to update the database.",
          "Invalid JSON string provided for \"propertiesJson\".",
          "No update operation specified (archived or block content)."}

ReturnedError(i) == pc[i] = "done" /\ "error" \in DOMAIN result[i]

Count(kinds) == Cardinality({n \in 1..Len(kinds) : kinds[n]})

\* C6 as stated: every error result is of exactly one of three kinds:
\* missing-credential, remote-rejection, transport failure.
C6_ThreeErrorKinds ==
    \A i \in Inv :
        ReturnedError(i) =>
            Count(<<IsMissingCredentialError(i), IsRemoteRejection(i),
                    IsTransportFailure(i)>>) = 1

\* C6, amended: every error result is of exactly one of four kinds:
\* missing-credential (no network call), local argument error (no network
\* call: nothing to update, unparseable propertiesJson), remote-rejection
\* (status code and decoded body), transport failure (generic message and
\* the text of the underlying error).
C6_FourErrorKinds ==
    \A i \in Inv :
        ReturnedError(i) =>
            Count(<<IsMissingCredentialError(i), IsLocalArgumentError(i),
                    IsRemoteRejection(i), IsTransportFailure(i)>>) = 1

C6_Witness ==
    \E i \in Inv :
        /\ ReturnedError(i)
        /\ tool[i] = "notionUpdateADatabase"
        /\ IsLocalArgumentError(i)
        /\ ~IsMissingCredentialError(i)

\* C7: with a credential, a success answer of the remote service makes the
\* adapter return the decoded response body itself, not an error object.
C7_SuccessReturnsBody ==
    \A i \in Inv :
        (/\ pc[i] = "done" /\ ~NoCredential(i)
         /\ resp[i].kind = "response" /\ resp[i].status \in 200..299) =>
            /\ "error" \notin DOMAIN result[i]
            /\ JsonParse(resp[i].text).ok => result[i] = JsonParse(resp[i].text).value

\* C8: an argument object that omits a required key is rejected by the schema
\* and no network call is made for the invocation.
C8_MissingRequiredRejected ==
    \A i \in Inv :
        (pc[i] \notin {"idle", "ready"} /\ ~(AdapterAt(i).required \subseteq DOMAIN args[i])) =>
            /\ pc[i] = "rejected"
            /\ sent[i] = <<>>
            /\ result[i] = NoResult

C8_Witness ==
    \E i \in Inv :
        /\ pc[i] = "rejected"
        /\ tool[i] = "notionRetrieveABlock"
        /\ "block_id" \notin DOMAIN args[i]
        /\ sent[i] = <<>>

\* C9: every request a tool sends carries as bearer token the credential
\* bound when the tool was built, and the fixed Notion-Version header,
\* whatever happens to the credential store in the meantime.
C9_BearerIsBoundCredential ==
    \A i \in Inv : \A n \in 1..Len(sent[i]) :
        /\ sent[i][n].headers.Authorization = "Bearer " \o notionToken[i]
        /\ sent[i][n].headers.NotionVersion = "2022-06-28"

\* C10: an invocation whose own fetch settles eventually returns, whichever
\* other invocations hang.
C10_HungCallBlocksOnlyItself ==
    \A i \in Inv : (pc[i] = "pending" /\ ~hung[i]) ~> (pc[i] = "done")

C10_Witness ==
    \E i, j \in Inv :
        /\ i # j
        /\ pc[j] = "pending" /\ hung[j]
        /\ pc[i] = "done" /\ Len(sent[i]) = 1 /\ resp[i].kind = "response"

\* C11: a non-blank save stores a credential and a re-initialisation reads
\* the configured state from the slot (true when a credential is stored,
\* false when not); a clear empties the slot, sets the configured state to
\* false and the input field to the empty string.
C11_SaveClearReinitialise ==
    [][\A c \in Conn :
          /\ (handleSaveSecret(c) /\ Truthy("string", Trim(secretInputValue[c])))
                => (storage' = Trim(secretInputValue[c]) /\ Truthy("string", storage'))
          /\ (~mounted[c] /\ mounted'[c])
                => (isConfigured'[c] = Truthy("string", storage'))
          /\ handleClearSecret(c)
                => (storage' = Null /\ ~isConfigured'[c] /\ secretInputValue'[c] = "")]_vars

C11_Witness ==
    \E c \in Conn :
        /\ mounted[c] /\ ~open[c]
        /\ logged = ClearedLine(c)
        /\ storage = Null /\ ~isConfigured[c] /\ secretInputValue[c] = ""

\* C12: once every connector has initialised, each one's configured state
\* equals whether the storage slot holds a credential.
C12_ConfiguredTracksStorage ==
    (\A c \in Conn : mounted[c]) =>
        \A c \in Conn : isConfigured[c] = Truthy("string", storage)

\* C13: a save or a clear in the connector of one chat does not change what
\* the connector of another chat reads from storage when it initialises.
C13_CredentialPerChat ==
    [][\A a, b \in Conn :
          (a # b /\ (handleSaveSecret(a) \/ handleClearSecret(a)))
              => GetItem(StorageKey(b))' = GetItem(StorageKey(b))]_vars

\* C14: the input field only ever changes to what the user types or to the
\* empty string, and it is empty after every initialisation.
C14_InputNeverFromStorage ==
    [][\A c \in Conn :
          /\ secretInputValue'[c] # secretInputValue[c]
                => (secretInputValue'[c] = "" \/ \E v \in InputValues : TypeSecret(c, v))
          /\ (~mounted[c] /\ mounted'[c]) => secretInputValue'[c] = ""]_vars

C14_Witness ==
    \E c \in Conn :
        /\ mounted[c] /\ isConfigured[c]
        /\ logged = SavedLine(c)
        /\ storage \in Secrets
        /\ secretInputValue[c] = ""

\* The parts of an entered secret: all of it, it trimmed, its first five
\* characters.
SecretParts(v) == {v, Trim(v), Substring05(v)}

\* C15: no line the connector logs holds an entered secret or a part of one.
C15_LogsNoSecret ==
    \A n \in 1..Len(logged) :
        \A v \in InputValues :
            Truthy("string", Trim(v)) => logged[n] \notin SecretParts(v)

\* C16: save-on-cloud changes neither the storage slot nor the configured
\* state, the dropdown or the input field, and sends nothing.
C16_SaveOnCloudIsStub ==
    [][\A c \in Conn :
          handleSaveOnCloud(c) =>
              UNCHANGED <<storage, mounted, open, secretInputValue, isConfigured, sent>>]_vars

C16_Witness ==
    \E c \in Conn :
        /\ mounted[c] /\ open[c]
        /\ Truthy("string", Trim(secretInputValue[c]))
        /\ logged = CloudLine(c, secretInputValue[c])
        /\ storage = Null /\ ~isConfigured[c]

\* The request an adapter sends when its identifier arguments are plain ids.
PlainArgs(b) ==
    {x \in ArgsOver(b, b.required) :
        \A k \in DOMAIN x : FieldType(b, k) = "string" /\ k # "propertiesJson" => x[k] = "id-1"}

\* C17: whatever the identifier arguments, the request of an adapter
\* addresses no resource that is the endpoint of an adapter with another path.
C17_FixedPathAndMethod ==
    \A i \in Inv : \A n \in 1..Len(sent[i]) :
        /\ sent[i][n].method = AdapterAt(i).method
        /\ \A b \in Adapters :
              (\E x \in PlainArgs(b) : sent[i][n].url = RequestUrl(b, x))
                  => b.path = AdapterAt(i).path

\* The page_size values a request carries, as text.
PageSizeIn(r) ==
    {r.query[n][2] : n \in {m \in 1..Len(r.query) : r.query[m][1] = "page_size"}}
    \cup (IF r.body.present /\ "page_size" \in DOMAIN r.body.json
          THEN {NumberToString(r.body.json["page_size"])} ELSE {})

\* C18: a supplied page_size is forwarded in the request with the same value,
\* 0 included, and none is sent when it is not supplied.
C18_PageSizeForwarded ==
    \A i \in Inv : \A n \in 1..Len(sent[i]) :
        ("page_size" \in AdapterAt(i).optional /\ ~NoCredential(i)) =>
            PageSizeIn(sent[i][n])
                = (IF "page_size" \in DOMAIN args[i]
                   THEN {NumberToString(args[i]["page_size"])} ELSE {})

\* C19: update-a-block accepts an argument object only if it supplies
\* archived or exactly one block-specific update, rejects more than one, and
\* sends as body exactly archived and the block-specific update supplied.
C19_UpdateABlockBody ==
    \A i \in Inv :
        (/\ tool[i] = "notionUpdateABlock" /\ pc[i] \notin {"idle", "ready"}
         /\ "block_id" \in DOMAIN args[i]) =>
            LET updates == DOMAIN args[i] \ {"block_id", "archived"} IN
            /\ pc[i] # "rejected" =>
                  ("archived" \in DOMAIN args[i] \/ Cardinality(updates) = 1)
            /\ Cardinality(updates) > 1 => pc[i] = "rejected"
            /\ (pc[i] # "rejected" /\ ~NoCredential(i)) =>
                  /\ Len(sent[i]) = 1
                  /\ sent[i][1].body.json = [k \in DOMAIN args[i] \ {"block_id"} |-> args[i][k]]

C19_Witness ==
    \E i \in Inv :
        /\ tool[i] = "notionUpdateABlock" /\ pc[i] = "pending"
        /\ {"archived", "paragraph"} \subseteq DOMAIN args[i]
        /\ DOMAIN sent[i][1].body.json = {"archived", "paragraph"}

\* C20: update-a-database with a credential returns the 'At least one
\* property' error without a network call when none of title, description
\* and properties is supplied, and otherwise sends as body exactly the
\* supplied ones.
C20_UpdateADatabaseBody ==
    \A i \in Inv :
        (/\ tool[i] = "notionUpdateADatabase" /\ Called(i) /\ ~NoCredential(i)) =>
            LET supplied == DOMAIN args[i] \cap {"title", "description", "properties"} IN
            IF supplied = {}
            THEN /\ pc[i] = "done"
                 /\ sent[i] = <<>>
                 /\ result[i] = [error |-> "At least one property (title, description, or properties) must be provided to update the database."]
            ELSE /\ Len(sent[i]) = 1
                 /\ sent[i][1].body.json = [k \in supplied |-> args[i][k]]

C20_Witness ==
    \E i \in Inv :
        /\ tool[i] = "notionUpdateADatabase" /\ pc[i] = "done"
        /\ DOMAIN args[i] = {"database_id", "title"}
        /\ args[i]["title"] = <<>>
        /\ Len(sent[i]) = 1
        /\ DOMAIN sent[i][1].body.json = {"title"}

\* C21: create-a-database with a credential returns the 'Invalid JSON
\* string' error with the parse error text and sends nothing when
\* propertiesJson does not parse; when it parses, the parsed value is sent as
\* properties, and title is sent exactly when supplied.
C21_CreateADatabaseBody ==
    \A i \in Inv :
        (/\ tool[i] = "notionCreateADatabase" /\ Called(i) /\ ~NoCredential(i)) =>
            CASE args[i]["propertiesJson"] = "{Name:" ->
                    /\ pc[i] = "done"
                    /\ sent[i] = <<>>
                    /\ result[i] = [error |-> "Invalid JSON string provided for \"propertiesJson\".",
                                    details |-> "Unexpected token N in JSON at position 1"]
              [] args[i]["propertiesJson"] = "{\"Name\":{\"title\":{}}}" ->
                    /\ Len(sent[i]) = 1
                    /\ LET json == sent[i][1].body.json IN
                       /\ "properties" \in DOMAIN json
                       /\ json["properties"] = [Name |-> [title |-> EmptyObject]]
                       /\ json["parent"] = args[i]["parent"]
                       /\ ("title" \in DOMAIN json) = ("title" \in DOMAIN args[i])
                       /\ "title" \in DOMAIN args[i] => json["title"] = args[i]["title"]

C21_Witness ==
    \E i \in Inv :
        /\ tool[i] = "notionCreateADatabase" /\ pc[i] = "pending"
        /\ "title" \in DOMAIN args[i]
        /\ DOMAIN sent[i][1].body.json = {"parent", "properties", "title"}

\* A child block carries the content object of its type.
HasContentOfType(child) ==
    /\ child.type = "paragraph" => "paragraph" \in DOMAIN child
    /\ child.type = "bulleted_list_item" => "bulleted_list_item" \in DOMAIN child

\* C22: every child block in a request of create-page carries the content
\* object of its type; arguments with a child that lacks it are rejected and
\* nothing is sent.
C22_CreatePageChildren ==
    \A i \in Inv :
        (/\ tool[i] = "notionPostPage" /\ pc[i] \notin {"idle", "ready"}
         /\ ~NoCredential(i)
         /\ "children" \in DOMAIN args[i]) =>
            /\ \A n \in 1..Len(sent[i]) :
                  "children" \in DOMAIN sent[i][n].body.json =>
                      \A m \in 1..Len(sent[i][n].body.json["children"]) :
                          HasContentOfType(sent[i][n].body.json["children"][m])
            /\ (\E m \in 1..Len(args[i]["children"]) : ~HasContentOfType(args[i]["children"][m]))
                  => (pc[i] = "rejected" /\ sent[i] = <<>>)

\* A child block carries exactly one content object, the one its type names.
HasExactlyContentOfType(child) ==
    DOMAIN child \ {"type"} = {child.type}

\* C23: every child block in a request of patch-block-children carries
\* exactly the content object its type names, and the children sent are never
\* empty; arguments with any other child, or with no child, are rejected and
\* nothing is sent.
C23_AppendChildren ==
    \A i \in Inv :
        (/\ tool[i] = "notionPatchBlockChildren" /\ pc[i] \notin {"idle", "ready"}
         /\ "children" \in DOMAIN args[i]) =>
            /\ \A n \in 1..Len(sent[i]) :
                  LET json == sent[i][n].body.json IN
                  /\ "children" \in DOMAIN json
                  /\ Len(json["children"]) >= 1
                  /\ \A m \in 1..Len(json["children"]) :
                        HasExactlyContentOfType(json["children"][m])
            /\ (\/ Len(args[i]["children"]) = 0
                \/ \E m \in 1..Len(args[i]["children"]) :
                      ~HasExactlyContentOfType(args[i]["children"][m]))
                  => (pc[i] = "rejected" /\ sent[i] = <<>>)

C23_Witness ==
    \E i \in Inv :
        /\ tool[i] = "notionPatchBlockChildren" /\ pc[i] = "pending"
        /\ sent[i][1].body.json["children"]
             = <<[type |-> "bulleted_list_item",
                  bulleted_list_item |-> [rich_text |-> RichText]]>>

\* The request of a database query: to the query endpoint of the database,
\* with no query string and a body over the given keys.
IsQueryRequest(r, ar, keys) ==
    /\ r.method = "POST"
    /\ r.url = "https://api.notion.com/v1" \o "/databases/" \o ar["database_id"] \o "/query"
    /\ r.query = <<>>
    /\ r.body.json = [k \in keys |-> ar[k]]

\* C24 as stated: the request of a database query does not depend on
\* filter_properties, and its body holds exactly the supplied ones of filter,
\* sorts, start_cursor, page_size, archived, in_trash.
C24_QueryBodyIsSupplied ==
    \A i \in Inv : \A n \in 1..Len(sent[i]) :
        (tool[i] = "notionPostDatabaseQuery" /\ ~NoCredential(i)) =>
            IsQueryRequest(sent[i][n], args[i],
                DOMAIN args[i] \cap {"filter", "sorts", "start_cursor", "page_size",
                                     "archived", "in_trash"})

\* C24, amended: the request of a database query does not depend on
\* filter_properties, and its body holds exactly the supplied ones of filter,
\* sorts, page_size, archived, in_trash (archived and in_trash also when
\* false, page_size also when 0), and start_cursor when it is supplied and
\* not the empty string.
C24_QueryBodyIsSuppliedNonEmptyCursor ==
    \A i \in Inv : \A n \in 1..Len(sent[i]) :
        (tool[i] = "notionPostDatabaseQuery" /\ ~NoCredential(i)) =>
            IsQueryRequest(sent[i][n], args[i],
                {k \in DOMAIN args[i] \cap {"filter", "sorts", "start_cursor", "page_size",
                                           "archived", "in_trash"} :
                    k = "start_cursor" => args[i][k] # ""})

C24_Witness ==
    \E i \in Inv :
        /\ tool[i] = "notionPostDatabaseQuery" /\ pc[i] = "pending"
        /\ DOMAIN args[i] = {"database_id", "filter_properties", "in_trash"}
        /\ sent[i][1].body.json = [in_trash |-> FALSE]

\* C25: page retrieval sends one filter_properties parameter per item of the
\* comma-separated list, in order, each trimmed; it sends no query parameter
\* when filter_properties is not supplied.
C25_PageFilterProperties ==
    \A i \in Inv : \A n \in 1..Len(sent[i]) :
        tool[i] = "notionRetrieveAPage" =>
            LET query == sent[i][n].query IN
            CASE "filter_properties" \notin DOMAIN args[i] -> query = <<>>
              [] args[i]["filter_properties"] = <<"id-1", " id-2">> ->
                    query = <<<<"filter_properties", "id-1">>,
                              <<"filter_properties", "id-2">>>>
              [] OTHER -> query = <<>>

C25_Witness ==
    \E i \in Inv :
        /\ tool[i] = "notionRetrieveAPage" /\ pc[i] = "pending"
        /\ "filter_properties" \in DOMAIN args[i]
        /\ args[i]["filter_properties"] = <<"id-1", " id-2">>
        /\ Len(sent[i][1].query) = 2

\* C26: once a response has been received, the result is not the generic
\* transport-failure error.
C26_TransportFailureOnlyOnThrow ==
    \A i \in Inv :
        (pc[i] = "done" /\ ~NoCredential(i) /\ resp[i].kind = "response") =>
            ~("error" \in DOMAIN result[i] /\ result[i].error = AdapterAt(i).failText)

\* C27: an adapter built by a factory without a credential returns the
\* missing-credential error whatever its arguments, also those that would
\* make it return another error before its request.
C27_CredentialCheckFirst ==
    \A i \in Inv :
        (/\ Called(i) /\ AdapterAt(i).token = "bound"
         /\ notionToken[i] \in {Null, ""}) =>
            /\ pc[i] = "done"
            /\ sent[i] = <<>>
            /\ result[i] = MissingTokenError

C27_Witness ==
    \E i \in Inv :
        /\ tool[i] = "notionCreateADatabase" /\ pc[i] = "done"
        /\ notionToken[i] = ""
        /\ args[i]["propertiesJson"] = "{Name:"
        /\ result[i] = MissingTokenError

\* C28: a schema-valid call of update-a-block with a credential sends a
\* request with a non-empty body and never returns the 'No update operation
\* specified' error.
C28_NoUpdateErrorUnreachable ==
    \A i \in Inv :
        (tool[i] = "notionUpdateABlock" /\ Called(i) /\ ~NoCredential(i)) =>
            /\ Len(sent[i]) = 1
            /\ DOMAIN sent[i][1].body.json # {}
            /\ result[i] # [error |-> "No update operation specified (archived or block content)."]

C28_Witness ==
    \E i \in Inv :
        /\ tool[i] = "notionUpdateABlock" /\ pc[i] = "pending"
        /\ DOMAIN args[i] = {"block_id", "archived"}
        /\ sent[i][1].body.json = [archived |-> FALSE]

\* A string without leading or trailing whitespace, of the strings the model
\* uses.
NoOuterWhitespace(s) == s \notin {" secret_B ", " id-2", "  "}

\* C29: the storage slot is absent or holds a non-empty string without
\* leading or trailing whitespace, a save stores the trimmed input, and a
\* save with blank input changes neither the slot nor the configured state
\* nor the dropdown.
C29_SlotHoldsTrimmedSecret ==
    [][/\ storage' = Null \/ (storage' # "" /\ NoOuterWhitespace(storage'))
       /\ \A c \in Conn :
             handleSaveSecret(c) =>
                 CASE secretInputValue[c] \in {"", "  "} ->
                         UNCHANGED <<storage, isConfigured, open>>
                   [] secretInputValue[c] = " secret_B " -> storage' = "secret_B"
                   [] OTHER -> storage' = secretInputValue[c]]_vars

C29_Witness ==
    \E c \in Conn :
        /\ mounted[c] /\ isConfigured[c]
        /\ secretInputValue[c] = " secret_B "
        /\ logged = SavedLine(c)
        /\ storage = "secret_B"

====
